---- MODULE Spec2Model ----
(***************************************************************************)
(* Model of al-kitab's main.py: OCR region extraction (google_ocr), greedy *)
(* word wrap (wrap_text) and the erase/translate/fit/draw pass over one    *)
(* image (erase_sentences_from_image).                                     *)
(*                                                                         *)
(* A Python str is a sequence of Unicode code points (naturals), so that   *)
(* lower(), strip(), split(), re.sub and re.search are computed character  *)
(* by character.                                                           *)
(***************************************************************************)
EXTENDS Integers, Sequences, FiniteSets, TLC

VARIABLES
    \* wrap_text called on its own
    w_text, w_font, w_max_width, w_lines, w_pc,
    \* google_ocr
    paragraphs, p_idx, sentence_boxes, ocr_pc,
    \* erase_sentences_from_image
    boxes, font_ok, pc, idx, canvas, regions

wrapVars == <<w_text, w_font, w_max_width, w_lines, w_pc>>
ocrVars == <<paragraphs, p_idx, sentence_boxes, ocr_pc>>
imgVars == <<boxes, font_ok, pc, idx, canvas, regions>>
vars == <<wrapVars, ocrVars, imgVars>>

----------------------------------------------------------------------------
(* Bounds of the model *)

\* longest text handed to wrap_text on its own
MaxLen == 4
\* most words in one OCR paragraph
MaxWords == 2
\* most paragraphs in one OCR response
MaxParagraphs == 2
\* most regions handed to erase_sentences_from_image
MaxRegions == 2

----------------------------------------------------------------------------
(* Sequences and Python str methods *)

Range(s) == {s[k] : k \in 1..Len(s)}

RECURSIVE SeqsUpTo(_, _)
SeqsUpTo(S, n) ==
    IF n = 0 THEN {<<>>}
    ELSE LET shorter == SeqsUpTo(S, n - 1)
         IN  shorter \cup {Append(s, x) : s \in {t \in shorter : Len(t) = n - 1}, x \in S}

Max2(a, b) == IF a >= b THEN a ELSE b

SetMax(S) == CHOOSE m \in S : \A x \in S : x <= m
SetMin(S) == CHOOSE m \in S : \A x \in S : m <= x

\* str.isspace() per character, for the code points below U+3000
WhitespaceChars == {9, 10, 11, 12, 13, 28, 29, 30, 31, 32, 133, 160, 5760,
                    8232, 8233, 8239, 8287} \cup (8192..8202)
IsSpace(c) == c \in WhitespaceChars

\* [A-Za-z]
IsLatin(c) == (c >= 65 /\ c <= 90) \/ (c >= 97 /\ c <= 122)

\* \w of a str pattern: letters, digits and underscore of any script; of the
\* scripts used here: ASCII, Arabic letters and Arabic-Indic digits
IsWordChar(c) ==
    \/ IsLatin(c)
    \/ (c >= 48 /\ c <= 57)
    \/ c = 95
    \/ (c >= 1569 /\ c <= 1610)
    \/ (c >= 1632 /\ c <= 1641)

\* str.lower(): only A-Z change among the characters used here
LowerChar(c) == IF c >= 65 /\ c <= 90 THEN c + 32 ELSE c
Lower(s) == [k \in 1..Len(s) |-> LowerChar(s[k])]

\* str.isspace(): non-empty and every character is whitespace
IsSpaceStr(s) == s # <<>> /\ \A k \in 1..Len(s) : IsSpace(s[k])

\* str.strip()
Strip(s) ==
    LET keep == {k \in 1..Len(s) : ~IsSpace(s[k])}
    IN  IF keep = {} THEN <<>> ELSE SubSeq(s, SetMin(keep), SetMax(keep))

\* p in s
Contains(s, p) ==
    \E k \in 0..(Len(s) - Len(p)) : \A j \in 1..Len(p) : s[k + j] = p[j]

\* str.split(): the maximal runs of non-whitespace characters, in order
RECURSIVE SplitFrom(_, _, _, _)
SplitFrom(s, k, word, words) ==
    IF k > Len(s) THEN (IF word = <<>> THEN words ELSE Append(words, word))
    ELSE IF IsSpace(s[k])
         THEN SplitFrom(s, k + 1, <<>>, IF word = <<>> THEN words ELSE Append(words, word))
         ELSE SplitFrom(s, k + 1, Append(word, s[k]), words)
Split(s) == SplitFrom(s, 1, <<>>, <<>>)

\* re.sub(r'[A-Za-z]', '', s)
StripLatin(s) == SelectSeq(s, LAMBDA c : ~IsLatin(c))

----------------------------------------------------------------------------
(* Fonts and text measurement (Pillow) *)

\* ImageFont.truetype(font_path, size) and ImageFont.load_default()
TrueType(size) == [kind |-> "truetype", size |-> size]
DefaultFont == [kind |-> "default", size |-> 0]

\* advance of a glyph in eighths of an em: spaces, punctuation and i, l are
\* narrow, every other glyph is wide (the font is not monospaced)
Advance(c) == IF IsSpace(c) \/ ~IsWordChar(c) \/ c \in {105, 108} THEN 2 ELSE 4

\* the built-in bitmap font: 6 pixels per character, 11 pixels high
GlyphWidth(c, font) ==
    IF font.kind = "default" THEN 6 ELSE (Advance(c) * font.size) \div 8

RECURSIVE SumWidths(_, _, _)
SumWidths(s, k, font) ==
    IF k > Len(s) THEN 0 ELSE GlyphWidth(s[k], font) + SumWidths(s, k + 1, font)

\* draw.textbbox((0, 0), line, font=font)[2]
TextWidth(line, font) == SumWidths(line, 1, font)

\* draw.textbbox((0, 0), "Test", font=font)[3]
LineHeight(font) ==
    IF font.kind = "default" THEN 11 ELSE font.size + font.size \div 4

----------------------------------------------------------------------------
(* wrap_text *)

\* a plausible slip: the candidate line is measured without its joining spaces
FitsIgnoringSpaces(test_line, font, max_width) ==
    TextWidth(SelectSeq(test_line, LAMBDA c : ~IsSpace(c)), font) <= max_width

\* width = draw.textbbox(...)[2]; if width <= max_width
Fits(test_line, font, max_width) == TextWidth(test_line, font) <= max_width

\* the for loop of wrap_text, from word k on
RECURSIVE WrapLoop(_, _, _, _, _, _)
WrapLoop(words, k, current_line, lines, font, max_width) ==
    IF k > Len(words)
    THEN (IF current_line # <<>> THEN Append(lines, current_line) ELSE lines)
    ELSE LET word == words[k]
             test_line == IF current_line = <<>> THEN word
                          ELSE current_line \o <<32>> \o word
         IN  IF Fits(test_line, font, max_width)
             THEN WrapLoop(words, k + 1, test_line, lines, font, max_width)
             ELSE WrapLoop(words, k + 1, word, Append(lines, current_line), font, max_width)

wrap_text(text, font, max_width) == WrapLoop(Split(text), 1, <<>>, <<>>, font, max_width)

----------------------------------------------------------------------------
(* Idle values of the parts a specification does not exercise *)

WrapIdle ==
    /\ w_text = <<>>
    /\ w_font = DefaultFont
    /\ w_max_width = 0
    /\ w_lines = <<>>
    /\ w_pc = "idle"

OcrIdle ==
    /\ paragraphs = <<>>
    /\ p_idx = 1
    /\ sentence_boxes = <<>>
    /\ ocr_pc = "idle"

ImgIdle ==
    /\ boxes = <<>>
    /\ font_ok = TRUE
    /\ pc = "idle"
    /\ idx = 1
    /\ canvas = <<>>
    /\ regions = <<>>

----------------------------------------------------------------------------
(* Specification of wrap_text on its own *)

\* a space, a narrow Latin letter (i), a wide Arabic letter (beh)
WrapAlphabet == {32, 105, 1576}
WrapTexts == SeqsUpTo(WrapAlphabet, MaxLen)
WrapFonts == {TrueType(23), TrueType(18), DefaultFont}
WrapWidths == {3, 9, 14, 24}

WrapInit ==
    /\ w_text \in WrapTexts
    /\ w_font \in WrapFonts
    /\ w_max_width \in WrapWidths
    /\ w_lines = <<>>
    /\ w_pc = "call"
    /\ OcrIdle
    /\ ImgIdle

WrapCall ==
    /\ w_pc = "call"
    /\ w_lines' = wrap_text(w_text, w_font, w_max_width)
    /\ w_pc' = "returned"
    /\ UNCHANGED <<w_text, w_font, w_max_width, ocrVars, imgVars>>

WrapNext == WrapCall

WrapSpec == WrapInit /\ [][WrapNext]_vars

\* C3: every line wrap_text emits is at most max_width wide when measured
\* with the font it was wrapped with, unless it is a single word that alone
\* is wider than max_width; such a word is one of the words of the text,
\* unmodified, alone on its line.
C3_WrapWidth ==
    w_pc = "returned" =>
        \A k \in 1..Len(w_lines) :
            \/ TextWidth(w_lines[k], w_font) <= w_max_width
            \/ /\ w_lines[k] \in Range(Split(w_text))
               /\ TextWidth(w_lines[k], w_font) > w_max_width

\* a text of two words, the first alone too wide, has been wrapped, and a
\* text whose words had to be spread over lines within max_width
C3_Witness ==
    /\ w_pc = "returned"
    /\ Len(Split(w_text)) = 2
    /\ \E k \in 1..Len(w_lines) : TextWidth(w_lines[k], w_font) > w_max_width
    /\ \E k \in 1..Len(w_lines) :
           w_lines[k] # <<>> /\ TextWidth(w_lines[k], w_font) <= w_max_width

\* C10: wrap_text never returns an empty line.
C10_NoEmptyLine ==
    w_pc = "returned" => \A k \in 1..Len(w_lines) : w_lines[k] # <<>>

----------------------------------------------------------------------------
(* google_ocr *)

\* word_text = ''.join([symbol.text for symbol in word.symbols])
WordText(word) == word.symbols

\* sentence_text += word_text + " ", over the words of the paragraph
RECURSIVE SentenceText(_, _)
SentenceText(words, k) ==
    IF k > Len(words) THEN <<>>
    ELSE WordText(words[k]) \o <<32>> \o SentenceText(words, k + 1)

\* x_coords and y_coords: the coordinates of every vertex of every word
XCoords(words) ==
    {words[k].vertices[v][1] : k \in 1..Len(words), v \in 1..4}
YCoords(words) ==
    {words[k].vertices[v][2] : k \in 1..Len(words), v \in 1..4}

\* max() and min() of an empty list raise ValueError
ExtentsRaise(words) == XCoords(words) = {} \/ YCoords(words) = {}

\* [min(x_coords), min(y_coords), max(x_coords), max(y_coords)]
Extents(words) ==
    <<SetMin(XCoords(words)), SetMin(YCoords(words)),
      SetMax(XCoords(words)), SetMax(YCoords(words))>>

\* area = (max(x_coords) - min(x_coords)) * (max(y_coords) - min(y_coords))
Area(words) ==
    (SetMax(XCoords(words)) - SetMin(XCoords(words)))
        * (SetMax(YCoords(words)) - SetMin(YCoords(words)))

\* a plausible slip: both comparisons off by one
IsNoiseOffByOne(clean_text, area) == Len(clean_text) < 6 /\ area >= 40000

\* if len(clean_text) <= 6 and area > 40000: continue
IsNoise(clean_text, area) == Len(clean_text) <= 6 /\ area > 40000

\* re.search(r'\w', clean_text)
HasWordChar(clean_text) == \E k \in 1..Len(clean_text) : IsWordChar(clean_text[k])

\* The OCR response: its paragraphs in the order of the page / block /
\* paragraph loops. Words: "Hi" in a 10 x 10 box, "!?" in a diamond whose
\* far corner is (200, 200), "you" in a 300 x 200 box.
OcrWords ==
    { [symbols |-> <<72, 105>>,
       vertices |-> <<<<0, 0>>, <<10, 0>>, <<10, 10>>, <<0, 10>>>>],
      [symbols |-> <<33, 63>>,
       vertices |-> <<<<195, 190>>, <<200, 195>>, <<195, 200>>, <<190, 195>>>>],
      [symbols |-> <<121, 111, 117>>,
       vertices |-> <<<<0, 0>>, <<300, 0>>, <<300, 200>>, <<0, 200>>>>] }
OcrParagraphs == SeqsUpTo(OcrWords, MaxWords)

OcrInit ==
    /\ paragraphs \in SeqsUpTo(OcrParagraphs, MaxParagraphs)
    /\ p_idx = 1
    /\ sentence_boxes = <<>>
    /\ ocr_pc = "loop"
    /\ WrapIdle
    /\ ImgIdle

\* one pass of the paragraph loop body
OcrParagraph ==
    /\ ocr_pc = "loop"
    /\ p_idx <= Len(paragraphs)
    /\ LET words == paragraphs[p_idx]
           clean_text == Strip(SentenceText(words, 1))
       IN  /\ ~ExtentsRaise(words)
           /\ sentence_boxes' =
                  IF IsNoise(clean_text, Area(words)) THEN sentence_boxes
                  ELSE IF ~HasWordChar(clean_text) THEN sentence_boxes
                  ELSE Append(sentence_boxes,
                              [text |-> clean_text, bbox |-> Extents(words)])
    /\ p_idx' = p_idx + 1
    /\ UNCHANGED <<paragraphs, ocr_pc, wrapVars, imgVars>>

\* max(x_coords) on a paragraph without vertices: ValueError leaves google_ocr
OcrRaise ==
    /\ ocr_pc = "loop"
    /\ p_idx <= Len(paragraphs)
    /\ ExtentsRaise(paragraphs[p_idx])
    /\ ocr_pc' = "raised"
    /\ UNCHANGED <<paragraphs, p_idx, sentence_boxes, wrapVars, imgVars>>

\* return sentence_boxes
OcrReturn ==
    /\ ocr_pc = "loop"
    /\ p_idx > Len(paragraphs)
    /\ ocr_pc' = "returned"
    /\ UNCHANGED <<paragraphs, p_idx, sentence_boxes, wrapVars, imgVars>>

OcrNext == OcrParagraph \/ OcrRaise \/ OcrReturn

OcrSpec == OcrInit /\ [][OcrNext]_vars

\* what the noise filter is specified to keep: not (short text over a large
\* area), and at least one word character
Kept(words) ==
    /\ XCoords(words) # {}
    /\ ~(Len(Strip(SentenceText(words, 1))) <= 6 /\ Area(words) > 40000)
    /\ \E c \in Range(Strip(SentenceText(words, 1))) : IsWordChar(c)

RECURSIVE KeptRegions(_, _)
KeptRegions(ps, n) ==
    IF n = 0 THEN <<>>
    ELSE IF Kept(ps[n])
         THEN Append(KeptRegions(ps, n - 1),
                     [text |-> Strip(SentenceText(ps[n], 1)), bbox |-> Extents(ps[n])])
         ELSE KeptRegions(ps, n - 1)

\* C4: the regions emitted so far are exactly the paragraphs taken up so far
\* that are not (len(text) <= 6 and area > 40000) and contain a word
\* character, in the order of the traversal; google_ocr returns only after
\* every paragraph has been taken up.
C4_NoiseFilter ==
    /\ sentence_boxes = KeptRegions(paragraphs, p_idx - 1)
    /\ ocr_pc = "returned" => p_idx = Len(paragraphs) + 1

\* google_ocr returned from two paragraphs: it dropped one whose text has
\* exactly 6 characters over more than 40000 square pixels and kept the other
C4_Witness ==
    /\ ocr_pc = "returned"
    /\ Len(paragraphs) = 2
    /\ Len(sentence_boxes) = 1
    /\ \E k \in 1..2 :
           /\ ~ExtentsRaise(paragraphs[k])
           /\ Len(Strip(SentenceText(paragraphs[k], 1))) = 6
           /\ Area(paragraphs[k]) > 40000

\* C5: for every paragraph google_ocr takes up, a paragraph without words
\* included, it computes the bbox (min x, min y, max x, max y) over all
\* vertices of all words: it never leaves the paragraph loop by an exception,
\* and every emitted region carries the extents of its paragraph.
C5_BboxOfEveryParagraph ==
    /\ ocr_pc # "raised"
    /\ \A k \in 1..Len(sentence_boxes) :
           \E n \in 1..Len(paragraphs) :
               /\ ~ExtentsRaise(paragraphs[n])
               /\ sentence_boxes[k].bbox = Extents(paragraphs[n])

----------------------------------------------------------------------------
(* translate_openl and the validation of its result *)

invalid_phrases ==
    { \* "please provide the text"
      <<112,108,101,97,115,101,32,112,114,111,118,105,100,101,32,116,104,101,32,
        116,101,120,116>>,
      \* "cannot translate the text"
      <<99,97,110,110,111,116,32,116,114,97,110,115,108,97,116,101,32,116,104,
        101,32,116,101,120,116>>,
      \* "doesn't convey a clear meaning", with U+2019 for the apostrophe
      <<100,111,101,115,110,8217,116,32,99,111,110,118,101,121,32,97,32,99,108,
        101,97,114,32,109,101,97,110,105,110,103>>,
      \* "can't assist with that", with U+2019 for the apostrophe
      <<99,97,110,8217,116,32,97,115,115,105,115,116,32,119,105,116,104,32,116,
        104,97,116>>,
      \* "does not appear to be a coherent phrase"
      <<100,111,101,115,32,110,111,116,32,97,112,112,101,97,114,32,116,111,32,
        98,101,32,97,32,99,111,104,101,114,101,110,116,32,112,104,114,97,115,
        101>>,
      \* "I'm sorry, but I can't assist with that.", with U+0027 apostrophes
      <<73,39,109,32,115,111,114,114,121,44,32,98,117,116,32,73,32,99,97,110,39,
        116,32,97,115,115,105,115,116,32,119,105,116,104,32,116,104,97,116,46>> }

\* what the chat completion call does: it raises, or it answers with a content
ApiFailure == [ok |-> FALSE, content |-> <<>>]
ApiAnswer(content) == [ok |-> TRUE, content |-> content]

\* try: return response.choices[0].message.content.strip()
\* except Exception: return text
translate_openl(text, reply) == IF reply.ok THEN Strip(reply.content) ELSE text

\* any(p in translated_text.lower() for p in invalid_phrases)
IsInvalid(translated_text) ==
    LET lowered == Lower(translated_text)
    IN  \E p \in invalid_phrases : Contains(lowered, p)

\* a plausible slip: only the lower-case letters are removed
StripLowerCaseOnly(translated_text) ==
    Strip(SelectSeq(translated_text, LAMBDA c : ~(c >= 97 /\ c <= 122)))

\* re.sub(r'[A-Za-z]', '', translated_text).strip()
WithoutEnglish(translated_text) == Strip(StripLatin(translated_text))

\* not translated_text or translated_text.isspace()
IsBlank(s) == s = <<>> \/ IsSpaceStr(s)

----------------------------------------------------------------------------
(* Layout: padding, shrink-to-fit, reshaping *)

padding_x == 12
padding_y == 10
\* if max_width < 10 or max_height < 10
min_box_side == 10
\* font_size = 23
start_font_size == 23
min_font_size == 18
\* font_size -= 2
font_size_step == 2
\* the 4 pixels between two lines
line_gap == 4

\* x0 = max(0, x0 - padding_x); y0 = max(0, y0 - padding_y);
\* x1 += padding_x; y1 += padding_y
PaddedBox(bbox) ==
    <<Max2(0, bbox[1] - padding_x), Max2(0, bbox[2] - padding_y),
      bbox[3] + padding_x, bbox[4] + padding_y>>

\* a plausible slip: "and" for "or"
TooSmallBoth(max_width, max_height) ==
    max_width < min_box_side /\ max_height < min_box_side

\* if max_width < 10 or max_height < 10: continue
TooSmall(max_width, max_height) ==
    max_width < min_box_side \/ max_height < min_box_side

\* try: ImageFont.truetype(font_path, font_size)
\* except: ImageFont.load_default()
FontAt(font_size, ok) == IF ok THEN TrueType(font_size) ELSE DefaultFont

Reverse(s) == [k \in 1..Len(s) |-> s[Len(s) + 1 - k]]

IsDigit(c) == (c >= 48 /\ c <= 57) \/ (c >= 1632 /\ c <= 1641)
IsArabicLetter(c) == c >= 1569 /\ c <= 1610

\* the characters of s with every maximal run of digits reversed
RECURSIVE ReverseDigitRuns(_, _, _)
ReverseDigitRuns(s, k, run) ==
    IF k > Len(s) THEN run
    ELSE IF IsDigit(s[k]) THEN ReverseDigitRuns(s, k + 1, <<s[k]>> \o run)
    ELSE run \o <<s[k]>> \o ReverseDigitRuns(s, k + 1, <<>>)

\* get_display(arabic_reshaper.reshape(line)): a line with an Arabic letter
\* is laid out right to left, its numbers keeping their own order; a line
\* without one is left as it is. (The presentation forms the reshaper picks
\* are not told apart from the letters.)
Reshape(line) ==
    IF \E k \in 1..Len(line) : IsArabicLetter(line[k])
    THEN ReverseDigitRuns(Reverse(line), 1, <<>>)
    ELSE line

\* one pass of the body of the while loop, up to total_height
LayoutAt(translated_text, font, font_size, max_width) ==
    LET wrapped_lines == wrap_text(translated_text, font, max_width)
        reshaped_lines == [k \in 1..Len(wrapped_lines) |-> Reshape(wrapped_lines[k])]
        line_height == LineHeight(font)
    IN  [chosen |-> TRUE,
         font |-> font,
         font_size |-> font_size,
         wrapped_lines |-> wrapped_lines,
         reshaped_lines |-> reshaped_lines,
         line_height |-> line_height,
         total_height |-> line_height * Len(reshaped_lines)
                              + (Len(reshaped_lines) - 1) * line_gap]

NoLayout ==
    [chosen |-> FALSE, font |-> DefaultFont, font_size |-> 0,
     wrapped_lines |-> <<>>, reshaped_lines |-> <<>>,
     line_height |-> 0, total_height |-> 0]

\* a plausible slip: "<" for "<="
FitsHeightStrictly(total_height, max_height) == total_height < max_height

\* if total_height <= max_height
FitsHeight(total_height, max_height) == total_height <= max_height

\* while font_size >= min_font_size: ... font_size -= 2
RECURSIVE ShrinkToFit(_, _, _, _, _)
ShrinkToFit(translated_text, max_width, max_height, font_size, ok) ==
    IF font_size < min_font_size THEN NoLayout
    ELSE LET layout == LayoutAt(translated_text, FontAt(font_size, ok), font_size, max_width)
         IN  IF FitsHeight(layout.total_height, max_height) THEN layout
             ELSE ShrinkToFit(translated_text, max_width, max_height,
                              font_size - font_size_step, ok)

\* if not chosen_font: font = ImageFont.truetype(font_path, min_font_size),
\* outside any try: it raises when the font cannot be loaded
FallbackRaises(ok) == ~ok

\* font = ImageFont.truetype(font_path, min_font_size) and the layout with it
FallbackLayout(translated_text, max_width) ==
    [LayoutAt(translated_text, TrueType(min_font_size), min_font_size, max_width)
        EXCEPT !.chosen = FALSE]

----------------------------------------------------------------------------
(* The canvas: the rectangle and text calls on the ImageDraw, in order *)

\* draw.rectangle([(x0, y0), (x1, y1)], fill="white")
RectangleOp(i, box) ==
    [op |-> "rectangle", region |-> i, at |-> box, line |-> <<>>, font |-> DefaultFont]

\* draw.text((center_x, current_y), line, fill="black", font=font)
TextOp(i, center_x, current_y, line, font) ==
    [op |-> "text", region |-> i, at |-> <<center_x, current_y>>, line |-> line,
     font |-> font]

\* the calls of the for loop over reshaped_lines
TextOps(i, box, layout) ==
    LET max_width == box[3] - box[1]
        max_height == box[4] - box[2]
        first_y == box[2] + ((max_height - layout.total_height) \div 2)
    IN  [k \in 1..Len(layout.reshaped_lines) |->
            TextOp(i,
                   box[1] + ((max_width
                                - TextWidth(layout.reshaped_lines[k], layout.font)) \div 2),
                   first_y + (k - 1) * (layout.line_height + line_gap),
                   layout.reshaped_lines[k],
                   layout.font)]

\* a plausible slip: each region is erased right before it is drawn
EraseThenTextOps(i, box, layout) == <<RectangleOp(i, box)>> \o TextOps(i, box, layout)

\* what one pass of the draw loop puts on the canvas
DrawOps(i, box, layout) == TextOps(i, box, layout)

----------------------------------------------------------------------------
(* erase_sentences_from_image *)

\* "Hi you", "Room 101", " "
ImgTexts == { <<72,105,32,121,111,117>>, <<82,111,111,109,32,49,48,49>>, <<32>> }

\* padded to 122 x 50, to 40 x 26 (inside the first) and to 122 x 8 (the
\* words lie above the top edge of the image)
ImgBBoxes == { <<10, 10, 110, 40>>, <<20, 20, 36, 26>>, <<10, -30, 110, -2>> }

\* both texts in the large box, the first text in each box, a blank text
ImgRegions ==
    {r \in {[text |-> t, bbox |-> b] : t \in ImgTexts, b \in ImgBBoxes} :
        \/ r.bbox = <<10, 10, 110, 40>>
        \/ r.text = <<72,105,32,121,111,117>>}

\* what the translation call may do
ImgReplies ==
    { ApiFailure,
      \* two Arabic words
      ApiAnswer(<<1576,1578,32,1576>>),
      \* four Arabic words, with a newline at the end
      ApiAnswer(<<1576,1578,1576,32,1576,1578,1576,32,1576,1578,1576,32,1576,1578,1576,10>>),
      \* "PLEASE PROVIDE THE TEXT"
      ApiAnswer(<<80,76,69,65,83,69,32,80,82,79,86,73,68,69,32,84,72,69,32,84,69,88,84>>),
      \* "I'm sorry, but I can't assist with that."
      ApiAnswer(<<73,39,109,32,115,111,114,114,121,44,32,98,117,116,32,73,32,99,97,110,39,
                  116,32,97,115,115,105,115,116,32,119,105,116,104,32,116,104,97,116,46>>),
      \* "ok"
      ApiAnswer(<<111,107>>),
      \* "ok" and an Arabic word
      ApiAnswer(<<111,107,32,1576,1578>>) }

Init ==
    /\ boxes \in SeqsUpTo(ImgRegions, MaxRegions)
    /\ font_ok \in BOOLEAN
    /\ pc = "erase"
    /\ idx = 1
    /\ canvas = <<>>
    /\ regions = <<>>
    /\ WrapIdle
    /\ OcrIdle

\* what the draw loop leaves behind for a region
Outcome(status, failed, reply_text, translated_text, layout) ==
    [status |-> status, failed |-> failed, reply_text |-> reply_text,
     translated_text |-> translated_text, layout |-> layout]

\* one pass of the first loop
Erase ==
    /\ pc = "erase"
    /\ idx <= Len(boxes)
    /\ canvas' = Append(canvas, RectangleOp(idx, PaddedBox(boxes[idx].bbox)))
    /\ idx' = idx + 1
    /\ UNCHANGED <<boxes, font_ok, pc, regions, wrapVars, ocrVars>>

\* the first loop ends, the second begins
EraseDone ==
    /\ pc = "erase"
    /\ idx > Len(boxes)
    /\ pc' = "draw"
    /\ idx' = 1
    /\ UNCHANGED <<boxes, font_ok, canvas, regions, wrapVars, ocrVars>>

\* the second loop is at a region
AtRegion == pc = "draw" /\ idx <= Len(boxes)

RegionText == Strip(boxes[idx].text)
RegionBox == PaddedBox(boxes[idx].bbox)
RegionWidth == RegionBox[3] - RegionBox[1]
RegionHeight == RegionBox[4] - RegionBox[2]

\* the loop goes on to the next region, leaving the canvas as it is
Skip(outcome) ==
    /\ regions' = Append(regions, outcome)
    /\ idx' = idx + 1
    /\ UNCHANGED <<boxes, font_ok, pc, canvas, wrapVars, ocrVars>>

\* if not text or text.isspace(): continue
SkipBlank ==
    /\ AtRegion
    /\ IsBlank(RegionText)
    /\ Skip(Outcome("blank", FALSE, <<>>, <<>>, NoLayout))

\* if max_width < 10 or max_height < 10: continue
SkipSmall ==
    /\ AtRegion
    /\ ~IsBlank(RegionText)
    /\ TooSmall(RegionWidth, RegionHeight)
    /\ Skip(Outcome("small", FALSE, <<>>, <<>>, NoLayout))

\* the region is translated
Translating == AtRegion /\ ~IsBlank(RegionText) /\ ~TooSmall(RegionWidth, RegionHeight)

\* translated_text = translate_openl(text), for each thing the call may do
Translations == {[failed |-> ~reply.ok, text |-> translate_openl(RegionText, reply)] :
                    reply \in ImgReplies}

\* "Skipping invalid translation"
RejectInvalid ==
    /\ Translating
    /\ \E t \in Translations :
         /\ IsInvalid(t.text)
         /\ Skip(Outcome("invalid", t.failed, t.text, <<>>, NoLayout))

\* "Translation was empty after removing English."
RejectEmpty ==
    /\ Translating
    /\ \E t \in Translations :
         /\ ~IsInvalid(t.text)
         /\ IsBlank(WithoutEnglish(t.text))
         /\ Skip(Outcome("empty", t.failed, t.text, <<>>, NoLayout))

\* the translation is accepted, laid out and drawn
DrawRegion ==
    /\ Translating
    /\ \E t \in Translations :
         /\ ~IsInvalid(t.text)
         /\ \E translated_text \in {WithoutEnglish(t.text)} :
              /\ ~IsBlank(translated_text)
              /\ \E found \in {ShrinkToFit(translated_text, RegionWidth, RegionHeight,
                                           start_font_size, font_ok)} :
                   /\ found.chosen \/ ~FallbackRaises(font_ok)
                   /\ \E layout \in {IF found.chosen THEN found
                                     ELSE FallbackLayout(translated_text, RegionWidth)} :
                        /\ canvas' = canvas \o DrawOps(idx, RegionBox, layout)
                        /\ regions' = Append(regions,
                                             Outcome("drawn", t.failed, t.text,
                                                     translated_text, layout))
    /\ idx' = idx + 1
    /\ UNCHANGED <<boxes, font_ok, pc, wrapVars, ocrVars>>

\* no size fits and ImageFont.truetype(font_path, min_font_size) raises: the
\* exception leaves erase_sentences_from_image before image.save
FontRaise ==
    /\ Translating
    /\ \E t \in Translations :
         /\ ~IsInvalid(t.text)
         /\ \E translated_text \in {WithoutEnglish(t.text)} :
              /\ ~IsBlank(translated_text)
              /\ ~ShrinkToFit(translated_text, RegionWidth, RegionHeight,
                              start_font_size, font_ok).chosen
              /\ FallbackRaises(font_ok)
              /\ regions' = Append(regions,
                                   Outcome("raised", t.failed, t.text, translated_text,
                                           NoLayout))
    /\ pc' = "raised"
    /\ UNCHANGED <<boxes, font_ok, idx, canvas, wrapVars, ocrVars>>

\* image.save(output_path)
Save ==
    /\ pc = "draw"
    /\ idx > Len(boxes)
    /\ pc' = "saved"
    /\ UNCHANGED <<boxes, font_ok, idx, canvas, regions, wrapVars, ocrVars>>

Next ==
    \/ Erase
    \/ EraseDone
    \/ SkipBlank
    \/ SkipSmall
    \/ RejectInvalid
    \/ RejectEmpty
    \/ DrawRegion
    \/ FontRaise
    \/ Save

Spec == Init /\ [][Next]_vars

----------------------------------------------------------------------------
(* Properties of erase_sentences_from_image *)

\* the positions of the canvas calls of one kind made for region i
OpsOf(kind, i) ==
    {k \in 1..Len(canvas) : canvas[k].op = kind /\ canvas[k].region = i}

BoxWidth(i) == PaddedBox(boxes[i].bbox)[3] - PaddedBox(boxes[i].bbox)[1]
BoxHeight(i) == PaddedBox(boxes[i].bbox)[4] - PaddedBox(boxes[i].bbox)[2]

Overlap(a, b) == a[1] < b[3] /\ b[1] < a[3] /\ a[2] < b[4] /\ b[2] < a[4]

\* C1: no rectangle is painted after a line of text has been drawn, and by
\* the time the first line of text is drawn every region has been painted
\* white.
C1_EraseBeforeDraw ==
    /\ \A j, k \in 1..Len(canvas) :
           (j < k /\ canvas[j].op = "text") => canvas[k].op # "rectangle"
    /\ (\E k \in 1..Len(canvas) : canvas[k].op = "text") =>
           \A i \in 1..Len(boxes) : OpsOf("rectangle", i) # {}

\* two regions whose padded boxes overlap have both been drawn
C1_Witness ==
    /\ pc = "saved"
    /\ Len(boxes) = 2
    /\ Overlap(PaddedBox(boxes[1].bbox), PaddedBox(boxes[2].bbox))
    /\ OpsOf("text", 1) # {}
    /\ OpsOf("text", 2) # {}

\* line_height * n_lines + 4 * (n_lines - 1) of a text wrapped at one size
BlockHeight(translated_text, font, max_width) ==
    LET n_lines == Len(wrap_text(translated_text, font, max_width))
    IN  LineHeight(font) * n_lines + 4 * (n_lines - 1)

\* the size the search is to yield for region i when its candidates are sizes
LargestFitting(i, sizes) ==
    LET fitting == {size \in sizes :
                        BlockHeight(regions[i].translated_text, FontAt(size, font_ok),
                                    BoxWidth(i)) <= BoxHeight(i)}
    IN  IF fitting = {} THEN 18 ELSE SetMax(fitting)

\* C2 as amended: for every region that is laid out, the search yields the
\* largest of the sizes 23, 21 and 19 whose block height is at most the box
\* height, and size 18 when none of them qualifies.
C2_LargestOf23_21_19 ==
    \A i \in 1..Len(regions) :
        regions[i].status = "drawn" =>
            regions[i].layout.font_size = LargestFitting(i, {23, 21, 19})

\* C2 as stated: the largest size in {18, 20, 22, 23} that fits, else 18.
C2_LargestOf18_20_22_23 ==
    \A i \in 1..Len(regions) :
        regions[i].status = "drawn" =>
            regions[i].layout.font_size = LargestFitting(i, {18, 20, 22, 23})

\* one region was laid out at size 21 and another at size 18 with its text
\* overflowing the box
C2_Witness ==
    /\ \E i \in 1..Len(regions) :
           regions[i].status = "drawn" /\ regions[i].layout.font_size = 21
    /\ \E i \in 1..Len(regions) :
           /\ regions[i].status = "drawn"
           /\ regions[i].layout.font_size = 18
           /\ regions[i].layout.total_height > BoxHeight(i)

\* C6: a region whose translation contains, in any letter case, a phrase of
\* invalid_phrases is rejected: nothing is drawn for it and the loop goes on.
C6_PhraseRejected ==
    \A i \in 1..Len(regions) :
        (\E p \in invalid_phrases : Contains(Lower(regions[i].reply_text), Lower(p))) =>
            /\ regions[i].status = "invalid"
            /\ OpsOf("text", i) = {}
            /\ idx > i

OnlyLatinAndSpace(s) == \A k \in 1..Len(s) : IsLatin(s[k]) \/ IsSpace(s[k])

\* C7 as stated: when the translation call fails the original text comes back
\* unchanged and the region ends empty and rejected, nothing drawn for it.
C7_FailureLeavesRegionEmpty ==
    \A i \in 1..Len(regions) :
        regions[i].failed =>
            /\ regions[i].reply_text = Strip(boxes[i].text)
            /\ regions[i].status = "empty"
            /\ OpsOf("text", i) = {}

\* C7 as amended: when the translation call fails the original text comes
\* back unchanged; a text of Latin letters and spaces only is then rejected
\* and nothing is drawn for it, while what a text with other characters keeps
\* after the Latin letters are removed is laid out, unless it holds a
\* rejection phrase.
C7_FailureOnLettersOnly ==
    \A i \in 1..Len(regions) :
        regions[i].failed =>
            /\ regions[i].reply_text = Strip(boxes[i].text)
            /\ OnlyLatinAndSpace(boxes[i].text) =>
                   /\ regions[i].status \in {"empty", "invalid"}
                   /\ OpsOf("text", i) = {}
            /\ (~OnlyLatinAndSpace(boxes[i].text) /\ ~IsInvalid(boxes[i].text)) =>
                   /\ regions[i].status \in {"drawn", "raised"}
                   /\ regions[i].translated_text
                          = Strip(SelectSeq(boxes[i].text, LAMBDA c : ~IsLatin(c)))

\* the translation of an all-Latin text failed in one region, that of a text
\* with digits in another, and the image was saved
C7_Witness ==
    /\ pc = "saved"
    /\ \E i \in 1..Len(regions) :
           regions[i].failed /\ OnlyLatinAndSpace(boxes[i].text)
    /\ \E i \in 1..Len(regions) :
           regions[i].failed /\ ~OnlyLatinAndSpace(boxes[i].text)

\* C8: when the font cannot be loaded every accepted region is laid out with
\* the default font and drawn, and the image is not abandoned.
C8_FontFailureNeverAborts ==
    ~font_ok =>
        /\ pc # "raised"
        /\ \A i \in 1..Len(regions) :
               regions[i].status = "drawn" => regions[i].layout.font = DefaultFont

\* C9: a region whose padded box is less than 10 wide or less than 10 high is
\* painted white by the first loop and no text is ever drawn for it.
C9_SmallBoxErasedOnly ==
    \A i \in 1..Len(boxes) :
        (BoxWidth(i) < 10 \/ BoxHeight(i) < 10) =>
            /\ (pc # "erase" \/ i < idx) =>
                   \E k \in OpsOf("rectangle", i) : canvas[k].at = PaddedBox(boxes[i].bbox)
            /\ OpsOf("text", i) = {}
            /\ i <= Len(regions) => regions[i].status \in {"small", "blank"}

\* an image with a region whose padded box is 8 high, its text not blank, was
\* saved with another region drawn
C9_Witness ==
    /\ pc = "saved"
    /\ \E i \in 1..Len(boxes) :
           /\ BoxHeight(i) = 8
           /\ ~IsBlank(Strip(boxes[i].text))
           /\ regions[i].status = "small"
    /\ \E i \in 1..Len(regions) : regions[i].status = "drawn"

====
